---- MODULE Spec2Model ----
(***************************************************************************)
(* State-machine model of pop_dashboard.py: SystemMonitor.update_metrics   *)
(* (the metrics sampler) and PopOsDashboard.check_optimization_status      *)
(* (the optimization-status probe).                                        *)
(*                                                                         *)
(* Conventions of the model:                                               *)
(*   - time.time() is read in whole seconds;                               *)
(*   - a float that results from a division is kept as an exact fraction   *)
(*     in lowest terms, [num |-> n, den |-> d] with d > 0;                 *)
(*   - text that the code inspects (sensor names, file contents, command   *)
(*     output) is a tuple of one-character strings;                        *)
(*   - an Optional value is None, the empty tuple, or <<v>>;               *)
(*   - the source reads that raise in a call are the set `fails` of the    *)
(*     call's readings.                                                    *)
(***************************************************************************)
EXTENDS Integers, Sequences, FiniteSets, TLC

VARIABLES
    metrics,            \* SystemMonitor.metrics (the one SystemMetrics object)
    last_disk_io,       \* SystemMonitor.last_disk_io
    last_net_io,        \* SystemMonitor.last_net_io
    last_time,          \* SystemMonitor.last_time
    cpu_history,        \* SystemMonitor.cpu_history, deque(maxlen=60)
    memory_history,     \* SystemMonitor.memory_history, deque(maxlen=60)
    optimization_status,\* PopOsDashboard.optimization_status
    reading,            \* what the host sources returned to the last update_metrics
    probes,             \* what the files and commands returned to the last poll
    ticks,              \* number of update_metrics calls made
    polls,              \* number of check_optimization_status calls made
    poll_outcome,       \* how the last check_optimization_status call ended for its caller
    poll_raised,        \* whether an exception reached the outer except of the last poll
    same_backing,       \* whether the last poll found what the poll before it found
    tick_outcome,       \* how the last update_metrics call ended for its caller
    tick_raised,        \* whether an exception left the try block of the last call
    error_log,          \* number of logger.error records written by update_metrics
    cpu_log,            \* every value ever appended to cpu_history, in order
    memory_log,         \* every value ever appended to memory_history, in order
    boot_time,          \* the host's psutil.boot_time()
    metrics_ref,        \* identity of the object SystemMonitor.metrics refers to
    status_ref,         \* identity of the object optimization_status refers to
    held_metrics,       \* the reference the metrics property returned after the
                        \* call before the last, and the fields it showed then
    held_status,        \* the same for optimization_status and the poll before the last
    running,            \* PopOsDashboard.running
    phase,              \* where the dashboard is: the menu, lines 535-546, or the loop
    pc,                 \* the statement of run_live_dashboard that is next
    cycles,             \* refresh cycles started since run_live_dashboard was entered
    cycle_ticks,        \* update_metrics calls made since the cycle (or lines 542-546) began
    cycle_polls,        \* check_optimization_status calls made since then
    sampled,            \* the fields of the two records after lines 552-553 (542-543)
    shown,              \* the fields of the two records as the panels rendered them
    loop_exit,          \* how run_live_dashboard was left the last time
    entries,            \* number of times menu option 1 was selected
    handled,            \* number of exceptions the handler at lines 566-569 took
    mode,               \* how a full optimization was asked for: menu option 11 or --optimize
    confirm,            \* the answer to Confirm.ask at line 980
    op_pc,              \* index of the next call of the full optimization, 0 when none
    steps,              \* the calls of the full optimization made so far, in order
    globbed,            \* list(backup_dir.glob(...)) of the last restore menu, line 1013
    listing,            \* the names the restore menu printed, in the order [1], [2], ...
    backup_choice,      \* the text entered at line 1018
    selected,           \* the backup named in the prompt of line 1022
    restored,           \* the backup the restore at line 1023 was started for
    config,             \* the lines of scripts/config.sh, None when there is no file
    config_before,      \* the same before the last set_preset call
    preset_name,        \* the argument of the last set_preset call
    set_result,         \* what the last set_preset call returned
    get_result          \* what get_current_preset returned after it

vars == <<metrics, last_disk_io, last_net_io, last_time, cpu_history,
          memory_history, optimization_status, reading, probes, ticks, polls,
          poll_outcome, poll_raised, same_backing, tick_outcome, tick_raised,
          error_log, cpu_log, memory_log, boot_time, metrics_ref, status_ref,
          held_metrics, held_status, running, phase, pc, cycles, cycle_ticks,
          cycle_polls, sampled, shown, loop_exit, entries, handled, mode,
          confirm, op_pc, steps, globbed, listing, backup_choice, selected,
          restored, config, config_before, preset_name, set_result, get_result>>

monitorVars == <<metrics, last_disk_io, last_net_io, last_time, cpu_history,
                 memory_history, reading, ticks, tick_outcome, tick_raised,
                 error_log, cpu_log, memory_log, metrics_ref, held_metrics>>

statusVars == <<optimization_status, probes, polls, poll_outcome, poll_raised,
                same_backing, status_ref, held_status>>

liveVars == <<running, phase, pc, cycles, cycle_ticks, cycle_polls, sampled, shown,
              loop_exit, entries, handled>>

optimizeVars == <<mode, confirm, op_pc, steps>>

restoreVars == <<globbed, listing, backup_choice, selected, restored>>

presetVars == <<config, config_before, preset_name, set_result, get_result>>

menuVars == <<optimizeVars, restoreVars, presetVars>>

----------------------------------------------------------------------------
(* Bounds of the model *)

MaxTicks == 2
MaxTime == 2
MaxPolls == 3
MaxHistoryTicks == 100
MaxHistoryFaults == 1
MaxUptime == 12400
MaxCycles == 2
MaxEntries == 2
MaxBackups == 6
MaxLines == 2

(* Program constants *)

HistoryMaxLen == 60
MiB == 1048576
GiB == 1073741824
ShowLast == 5

None == <<>>
Some(v) == <<v>>

----------------------------------------------------------------------------
(* Fractions *)

Abs(n) == IF n < 0 THEN -n ELSE n

RECURSIVE GCD(_, _)
GCD(a, b) == IF b = 0 THEN a ELSE GCD(b, a % b)

\* n / d for d # 0, in lowest terms with a positive denominator
Frac(n, d) ==
    LET g == GCD(Abs(n), Abs(d))
        sgn == IF d < 0 THEN -1 ELSE 1
    IN  [num |-> sgn * (n \div g), den |-> sgn * (d \div g)]

Zero == [num |-> 0, den |-> 1]

\* the rate without the division by time_delta: bytes per tick, not per second
RatePerTick(current, last, time_delta) == Frac(current - last, MiB)

\* (current - last) / time_delta / (1024**2)
Rate(current, last, time_delta) == Frac(current - last, time_delta * MiB)

----------------------------------------------------------------------------
(* Text *)

LowerChar(c) ==
    CASE c = "C" -> "c" [] c = "P" -> "p" [] c = "U" -> "u"
      [] c = "O" -> "o" [] c = "R" -> "r" [] c = "E" -> "e"
      [] c = "T" -> "t" [] c = "M" -> "m" [] c = "F" -> "f"
      [] c = "A" -> "a" [] c = "L" -> "l" [] c = "S" -> "s"
      [] OTHER -> c

Lower(s) == [i \in 1..Len(s) |-> LowerChar(s[i])]

\* sub in s
Contains(s, sub) ==
    \E i \in 0..(Len(s) - Len(sub)) :
        \A j \in 1..Len(sub) : s[i + j] = sub[j]

IsSpace(c) == c \in {" ", "\n", "\t"}

\* s.strip()
Strip(s) ==
    LET keep == {i \in 1..Len(s) : ~IsSpace(s[i])}
    IN  IF keep = {} THEN <<>>
        ELSE LET lo == CHOOSE i \in keep : \A j \in keep : i <= j
                 hi == CHOOSE i \in keep : \A j \in keep : j <= i
             IN  SubSeq(s, lo, hi)

----------------------------------------------------------------------------
(* SystemMetrics and SystemMonitor *)

\* SystemMetrics(): the dataclass defaults, load_avg filled by __post_init__
DefaultMetrics ==
    [cpu_percent |-> 0, cpu_freq |-> 0, cpu_cores |-> 0,
     memory_percent |-> 0, memory_available |-> Zero, memory_total |-> Zero,
     swap_percent |-> 0, disk_usage |-> 0,
     disk_read_speed |-> Zero, disk_write_speed |-> Zero,
     network_sent |-> Zero, network_recv |-> Zero,
     uptime |-> "Unknown", load_avg |-> <<0, 0, 0>>, temperature |-> None]

\* a deque without maxlen: nothing is ever dropped
DequeAppendUnbounded(q, v) == Append(q, v)

\* deque(maxlen=60).append(v): the oldest entry is dropped when the deque is full
DequeAppend(q, v) ==
    IF Len(q) >= HistoryMaxLen THEN Append(Tail(q), v) ELSE Append(q, v)

\* 'coretemp' in name.lower() or 'cpu' in name.lower()
IsCpuName(name) ==
    \/ Contains(Lower(name), <<"c", "o", "r", "e", "t", "e", "m", "p">>)
    \/ Contains(Lower(name), <<"c", "p", "u">>)

\* the for loop over temps.items(): the groups that reach the assignment
TempHits(temps) ==
    {i \in 1..Len(temps) : IsCpuName(temps[i].name) /\ temps[i].entries # <<>>}

\* minutes rounded to the nearest minute instead of cut off
FormatUptimeRounded(uptime_seconds) ==
    LET hours == uptime_seconds \div 3600
        remainder == uptime_seconds % 3600
        minutes == (remainder + 30) \div 60
    IN  ToString(hours) \o "h " \o ToString(minutes) \o "m"

\* f"{int(hours)}h {int(minutes)}m" with hours, remainder = divmod(s, 3600)
\* and minutes, _ = divmod(remainder, 60)
FormatUptime(uptime_seconds) ==
    LET hours == uptime_seconds \div 3600
        remainder == uptime_seconds % 3600
        minutes == remainder \div 60
    IN  ToString(hours) \o "h " \o ToString(minutes) \o "m"

\* The monitor as one record, with the flag raised: an exception has left the
\* try block of update_metrics, the statements after it are skipped.
Raise(s) == [s EXCEPT !.raised = TRUE]

\* lines 116-118
StepCpu(s, in) ==
    IF s.raised THEN s
    ELSE IF "cpu_percent" \in in.fails THEN Raise(s)
    ELSE [s EXCEPT !.metrics.cpu_percent = in.cpu,
                   !.cpu_history = DequeAppend(@, in.cpu),
                   !.cpu_log = Append(@, in.cpu)]

\* lines 120-122
StepCpuFreq(s, in) ==
    IF s.raised THEN s
    ELSE IF "cpu_freq" \in in.fails THEN Raise(s)
    ELSE [s EXCEPT !.metrics.cpu_freq = IF in.freq = None THEN 0 ELSE in.freq[1],
                   !.metrics.cpu_cores = in.cores]

\* lines 125-126
StepLoadAvg(s, in) ==
    IF s.raised THEN s
    ELSE IF ~in.has_getloadavg THEN s
    ELSE IF "getloadavg" \in in.fails THEN Raise(s)
    ELSE [s EXCEPT !.metrics.load_avg = in.load]

\* lines 129-133
StepMemory(s, in) ==
    IF s.raised THEN s
    ELSE IF "virtual_memory" \in in.fails THEN Raise(s)
    ELSE [s EXCEPT !.metrics.memory_percent = in.mem.percent,
                   !.metrics.memory_available = Frac(in.mem.available, GiB),
                   !.metrics.memory_total = Frac(in.mem.total, GiB),
                   !.memory_history = DequeAppend(@, in.mem.percent),
                   !.memory_log = Append(@, in.mem.percent)]

\* lines 135-136
StepSwap(s, in) ==
    IF s.raised THEN s
    ELSE IF "swap_memory" \in in.fails THEN Raise(s)
    ELSE [s EXCEPT !.metrics.swap_percent = in.swap]

\* lines 139-140
StepDiskUsage(s, in) ==
    IF s.raised THEN s
    ELSE IF "disk_usage" \in in.fails THEN Raise(s)
    ELSE [s EXCEPT !.metrics.disk_usage = in.disk]

\* lines 143-148; reading an attribute of None raises AttributeError
StepDiskIo(s, in) ==
    LET time_delta == in.time - s.last_time
    IN  IF s.raised THEN s
        ELSE IF "disk_io_counters" \in in.fails THEN Raise(s)
        ELSE IF s.last_disk_io # None /\ time_delta > 0
        THEN IF in.disk_io = None THEN Raise(s)
             ELSE [s EXCEPT
                    !.metrics.disk_read_speed =
                        Rate(in.disk_io[1].read_bytes, s.last_disk_io[1].read_bytes, time_delta),
                    !.metrics.disk_write_speed =
                        Rate(in.disk_io[1].write_bytes, s.last_disk_io[1].write_bytes, time_delta)]
        ELSE s

\* lines 151-156
StepNetIo(s, in) ==
    LET time_delta == in.time - s.last_time
    IN  IF s.raised THEN s
        ELSE IF "net_io_counters" \in in.fails THEN Raise(s)
        ELSE IF s.last_net_io # None /\ time_delta > 0
        THEN IF in.net_io = None THEN Raise(s)
             ELSE [s EXCEPT
                    !.metrics.network_sent =
                        Rate(in.net_io[1].bytes_sent, s.last_net_io[1].bytes_sent, time_delta),
                    !.metrics.network_recv =
                        Rate(in.net_io[1].bytes_recv, s.last_net_io[1].bytes_recv, time_delta)]
        ELSE s

\* lines 159-162; in.uptime is time.time() - psutil.boot_time()
StepUptime(s, in) ==
    IF s.raised THEN s
    ELSE IF "boot_time" \in in.fails THEN Raise(s)
    ELSE [s EXCEPT !.metrics.uptime = FormatUptime(in.uptime)]

\* a loop without the break: every later hit overwrites the temperature
StepTemperatureNoBreak(s, in) ==
    IF s.raised THEN s
    ELSE IF "sensors_temperatures" \in in.fails THEN s
    ELSE IF TempHits(in.sensors) = {} THEN s
    ELSE LET last == CHOOSE i \in TempHits(in.sensors) :
                         \A j \in TempHits(in.sensors) : i >= j
         IN  [s EXCEPT !.metrics.temperature = Some(in.sensors[last].entries[1])]

\* lines 165-175; the inner bare except swallows a failing sensors read
StepTemperature(s, in) ==
    IF s.raised THEN s
    ELSE IF "sensors_temperatures" \in in.fails THEN s
    ELSE IF TempHits(in.sensors) = {} THEN s
    ELSE LET first == CHOOSE i \in TempHits(in.sensors) :
                          \A j \in TempHits(in.sensors) : i <= j
         IN  [s EXCEPT !.metrics.temperature = Some(in.sensors[first].entries[1])]

\* lines 178-180
StepReferences(s, in) ==
    IF s.raised THEN s
    ELSE [s EXCEPT !.last_disk_io = in.disk_io,
                   !.last_net_io = in.net_io,
                   !.last_time = in.time]

\* the try block of update_metrics, lines 111-180
UpdateMetrics(s, in) ==
    LET s1 == StepCpu(s, in)
        s2 == StepCpuFreq(s1, in)
        s3 == StepLoadAvg(s2, in)
        s4 == StepMemory(s3, in)
        s5 == StepSwap(s4, in)
        s6 == StepDiskUsage(s5, in)
        s7 == StepDiskIo(s6, in)
        s8 == StepNetIo(s7, in)
        s9 == StepUptime(s8, in)
        s10 == StepTemperature(s9, in)
    IN  StepReferences(s10, in)

\* a handler that logs and raises again
TickOutcomeReraise(raised) == IF raised THEN "raised" ELSE "returned"

\* lines 182-183: except Exception logs the error; the call returns normally
TickOutcome(raised) == "returned"

\* lines 117-172 and 224-249 assign to the fields of the object that
\* self.metrics, or self.optimization_status, refers to: the attribute is bound
\* once, in __init__, and to the same object ever after
Handed(ref, fields) == [ref |-> ref, seen |-> fields]

Monitor ==
    [metrics |-> metrics, last_disk_io |-> last_disk_io,
     last_net_io |-> last_net_io, last_time |-> last_time,
     cpu_history |-> cpu_history, memory_history |-> memory_history,
     cpu_log |-> cpu_log, memory_log |-> memory_log, raised |-> FALSE]

\* one call of SystemMonitor.update_metrics with the readings in
Tick(in) ==
    \E r \in {UpdateMetrics(Monitor, in)} :
        /\ metrics' = r.metrics
        /\ last_disk_io' = r.last_disk_io
        /\ last_net_io' = r.last_net_io
        /\ last_time' = r.last_time
        /\ cpu_history' = r.cpu_history
        /\ memory_history' = r.memory_history
        /\ cpu_log' = r.cpu_log
        /\ memory_log' = r.memory_log
        /\ error_log' = error_log + (IF r.raised THEN 1 ELSE 0)
        /\ tick_outcome' = TickOutcome(r.raised)
        /\ tick_raised' = r.raised
        /\ reading' = in
        /\ ticks' = ticks + 1
        /\ metrics_ref' = metrics_ref
        /\ held_metrics' = Handed(metrics_ref, metrics)
        /\ UNCHANGED <<statusVars, boot_time, menuVars>>

----------------------------------------------------------------------------
(* What the host can return to one update_metrics call *)

Sources ==
    {"cpu_percent", "cpu_freq", "getloadavg", "virtual_memory", "swap_memory",
     "disk_usage", "disk_io_counters", "net_io_counters", "boot_time",
     "sensors_temperatures"}

Acpitz == <<"a", "c", "p", "i", "t", "z">>
Coretemp == <<"c", "o", "r", "e", "t", "e", "m", "p">>
K10temp == <<"k", "1", "0", "t", "e", "m", "p">>
Nvme == <<"n", "v", "m", "e">>
CpuThermal == <<"C", "P", "U", "_", "T", "h", "e", "r", "m", "a", "l">>

SensorsCore ==
    <<[name |-> Acpitz, entries |-> <<27>>], [name |-> Coretemp, entries |-> <<55, 60>>]>>
SensorsUpper ==
    <<[name |-> CpuThermal, entries |-> <<61>>], [name |-> Coretemp, entries |-> <<58>>]>>
SensorsNoCpu ==
    <<[name |-> Acpitz, entries |-> <<27>>], [name |-> Nvme, entries |-> <<40>>]>>
SensorsAmd == <<[name |-> K10temp, entries |-> <<48>>]>>
SensorsEmptyGroup ==
    <<[name |-> Coretemp, entries |-> <<>>], [name |-> CpuThermal, entries |-> <<70>>]>>
SensorsNothing == <<>>

SensorMaps ==
    {SensorsCore, SensorsUpper, SensorsNoCpu, SensorsAmd, SensorsEmptyGroup,
     SensorsNothing}

DiskSamples ==
    {[read_bytes |-> 0, write_bytes |-> 0],
     [read_bytes |-> 10485760, write_bytes |-> 5242880],
     [read_bytes |-> 5242880, write_bytes |-> 10485760]}

NetSamples ==
    {[bytes_sent |-> 0, bytes_recv |-> 2097152],
     [bytes_sent |-> 3145728, bytes_recv |-> 1048576]}

\* two hosts' worth of readings that differ in every field
ProfileA ==
    [time |-> 1, fails |-> {}, has_getloadavg |-> TRUE,
     cpu |-> 25, freq |-> Some(2400), cores |-> 8, load |-> <<1, 2, 3>>,
     mem |-> [percent |-> 40, available |-> 536870912, total |-> 1073741824],
     swap |-> 5, disk |-> 70,
     disk_io |-> Some([read_bytes |-> 5242880, write_bytes |-> 10485760]),
     net_io |-> Some([bytes_sent |-> 3145728, bytes_recv |-> 1048576]),
     uptime |-> 12300, sensors |-> SensorsCore]

ProfileB ==
    [time |-> 2, fails |-> {}, has_getloadavg |-> TRUE,
     cpu |-> 80, freq |-> Some(3600), cores |-> 16, load |-> <<4, 5, 6>>,
     mem |-> [percent |-> 65, available |-> 268435456, total |-> 805306368],
     swap |-> 30, disk |-> 71,
     disk_io |-> Some([read_bytes |-> 10485760, write_bytes |-> 15728640]),
     net_io |-> Some([bytes_sent |-> 4194304, bytes_recv |-> 3145728]),
     uptime |-> 3599, sensors |-> SensorsUpper]

\* readings that differ in the clock and the raw byte counters
CounterReadings ==
    {[ProfileA EXCEPT !.time = t, !.disk_io = Some(d), !.net_io = Some(n)] :
        t \in 0..MaxTime, d \in DiskSamples, n \in NetSamples}

\* the same, and with one source that raises or a counter source that returns None
RateReadings ==
    CounterReadings
    \cup {[c EXCEPT !.fails = {"cpu_freq"}] : c \in CounterReadings}
    \cup {[c EXCEPT !.net_io = None] : c \in CounterReadings}

\* readings in which at most one source raises, or returns None, or is absent
FaultVariants(p) ==
    {p}
    \cup {[p EXCEPT !.fails = {src}] : src \in Sources}
    \cup {[p EXCEPT !.freq = None], [p EXCEPT !.has_getloadavg = FALSE],
          [p EXCEPT !.disk_io = None], [p EXCEPT !.net_io = None]}
    \cup {[p EXCEPT !.sensors = m] : m \in SensorMaps}

FaultReadings ==
    UNION {FaultVariants([p EXCEPT !.time = t]) :
             p \in {ProfileA, ProfileB}, t \in 1..2}

\* the n-th call's readings of a run that fills the history windows
HistoryReadings(n) ==
    {[ProfileA EXCEPT !.time = 1 + (n % 2), !.cpu = (7 * n) % 101,
                      !.mem.percent = (3 * n + 1) % 101, !.fails = F] :
        F \in {{}, {"virtual_memory"}}}

\* readings of a host that booted at time boot: line 159 reads the clock again
UptimeReadings(boot) ==
    {[ProfileA EXCEPT !.time = t, !.uptime = t - boot] : t \in 1..2}

----------------------------------------------------------------------------
(* OptimizationStatus and PopOsDashboard.check_optimization_status *)

Chars(str) ==
    CASE str = "unknown" -> <<"u", "n", "k", "n", "o", "w", "n">>
      [] str = "1" -> <<"1">>
      [] str = "1\n" -> <<"1", "\n">>
      [] str = "0\n" -> <<"0", "\n">>
      [] str = "false" -> <<"f", "a", "l", "s", "e">>
      [] str = "false\n" -> <<"f", "a", "l", "s", "e", "\n">>
      [] str = "true\n" -> <<"t", "r", "u", "e", "\n">>
      [] str = "performance\n" ->
           <<"p", "e", "r", "f", "o", "r", "m", "a", "n", "c", "e", "\n">>
      [] str = "performance" ->
           <<"p", "e", "r", "f", "o", "r", "m", "a", "n", "c", "e">>
      [] str = "powersave\n" -> <<"p", "o", "w", "e", "r", "s", "a", "v", "e", "\n">>
      [] str = "powersave" -> <<"p", "o", "w", "e", "r", "s", "a", "v", "e">>
      [] str = "enabled\n" -> <<"e", "n", "a", "b", "l", "e", "d", "\n">>
      [] str = "disabled\n" -> <<"d", "i", "s", "a", "b", "l", "e", "d", "\n">>
      [] str = "vm.swappiness = 10" ->
           <<"v", "m", ".", "s", "w", "a", "p", "p", "i", "n", "e", "s", "s",
             " ", "=", " ", "1", "0">>
      [] str = "vm.swappiness = 10\n" ->
           <<"v", "m", ".", "s", "w", "a", "p", "p", "i", "n", "e", "s", "s",
             " ", "=", " ", "1", "0", "\n">>
      [] str = "vm.swappiness = 60\n" ->
           <<"v", "m", ".", "s", "w", "a", "p", "p", "i", "n", "e", "s", "s",
             " ", "=", " ", "6", "0", "\n">>
      [] str = "vm.swappiness = 100\n" ->
           <<"v", "m", ".", "s", "w", "a", "p", "p", "i", "n", "e", "s", "s",
             " ", "=", " ", "1", "0", "0", "\n">>
      [] str = "" -> <<>>

\* OptimizationStatus(): the dataclass defaults
DefaultStatus ==
    [cpu_boost |-> FALSE, cpu_governor |-> Chars("unknown"),
     memory_optimized |-> FALSE, ssd_optimized |-> FALSE,
     desktop_optimized |-> FALSE, services_optimized |-> FALSE]

\* a sysfs file: absent, present but read_text raises, or present with a text
MissingFile == [state |-> "missing", text |-> <<>>]
UnreadableFile == [state |-> "unreadable", text |-> <<>>]
FileWith(str) == [state |-> "ok", text |-> Chars(str)]

\* how a command ends under subprocess.run(..., timeout=30)
Exit(code, str) == [outcome |-> "exit", returncode |-> code, stdout |-> Chars(str)]
NotFound == [outcome |-> "not_found", returncode |-> 127, stdout |-> <<>>]
TimedOut == [outcome |-> "timeout", returncode |-> 124, stdout |-> <<>>]

\* run_command with check=True: a non-zero exit raises CalledProcessError, a
\* timeout raises TimeoutExpired, a missing binary raises FileNotFoundError
RunCommand(cmd) ==
    IF cmd.outcome = "exit" /\ cmd.returncode = 0
    THEN [raised |-> FALSE, returncode |-> cmd.returncode, stdout |-> cmd.stdout]
    ELSE [raised |-> TRUE, returncode |-> cmd.returncode, stdout |-> <<>>]

\* lines 222-224
CheckCpuBoost(s, p) ==
    IF s.raised THEN s
    ELSE IF p.boost.state = "missing" THEN s
    ELSE IF p.boost.state = "unreadable" THEN Raise(s)
    ELSE [s EXCEPT !.status.cpu_boost = (Strip(p.boost.text) = Chars("1"))]

\* a governor that is added to the text already there
CheckCpuGovernorAppend(s, p) ==
    IF s.raised THEN s
    ELSE IF p.governor.state = "missing" THEN s
    ELSE IF p.governor.state = "unreadable" THEN Raise(s)
    ELSE [s EXCEPT !.status.cpu_governor = @ \o Strip(p.governor.text)]

\* lines 227-229
CheckCpuGovernor(s, p) ==
    IF s.raised THEN s
    ELSE IF p.governor.state = "missing" THEN s
    ELSE IF p.governor.state = "unreadable" THEN Raise(s)
    ELSE [s EXCEPT !.status.cpu_governor = Strip(p.governor.text)]

\* lines 232-237
CheckMemory(s, p) ==
    IF s.raised THEN s
    ELSE IF RunCommand(p.sysctl).raised THEN s
    ELSE IF Contains(RunCommand(p.sysctl).stdout, Chars("vm.swappiness = 10"))
    THEN [s EXCEPT !.status.memory_optimized = TRUE]
    ELSE s

\* lines 240-244
CheckSsdTrim(s, p) ==
    IF s.raised THEN s
    ELSE IF RunCommand(p.systemctl).raised THEN s
    ELSE [s EXCEPT !.status.ssd_optimized = (RunCommand(p.systemctl).returncode = 0)]

\* lines 247-251
CheckDesktop(s, p) ==
    IF s.raised THEN s
    ELSE IF RunCommand(p.gsettings).raised THEN s
    ELSE [s EXCEPT !.status.desktop_optimized =
                      Contains(Lower(RunCommand(p.gsettings).stdout), Chars("false"))]

\* the try block of check_optimization_status, lines 220-251
CheckOptimizationStatus(status, p) ==
    LET s0 == [status |-> status, raised |-> FALSE]
        s1 == CheckCpuBoost(s0, p)
        s2 == CheckCpuGovernor(s1, p)
        s3 == CheckMemory(s2, p)
        s4 == CheckSsdTrim(s3, p)
    IN  CheckDesktop(s4, p)

\* lines 253-254: except Exception logs the error; the call returns normally
PollOutcome(raised) == "returned"

\* a poll that takes a sample of its own: it stores the clock in the monitor
PollSampling(p) ==
    \E r \in {CheckOptimizationStatus(optimization_status, p)} :
        /\ optimization_status' = r.status
        /\ poll_raised' = r.raised
        /\ poll_outcome' = PollOutcome(r.raised)
        /\ same_backing' = (polls >= 1 /\ probes = p)
        /\ probes' = p
        /\ polls' = polls + 1
        /\ status_ref' = status_ref
        /\ held_status' = Handed(status_ref, optimization_status)
        /\ last_time' = last_time + 1
        /\ UNCHANGED <<metrics, last_disk_io, last_net_io, cpu_history,
                       memory_history, reading, ticks, tick_outcome, tick_raised,
                       error_log, cpu_log, memory_log, metrics_ref, held_metrics,
                       boot_time, menuVars>>

\* one call of PopOsDashboard.check_optimization_status that finds p
Poll(p) ==
    \E r \in {CheckOptimizationStatus(optimization_status, p)} :
        /\ optimization_status' = r.status
        /\ poll_raised' = r.raised
        /\ poll_outcome' = PollOutcome(r.raised)
        /\ same_backing' = (polls >= 1 /\ probes = p)
        /\ probes' = p
        /\ polls' = polls + 1
        /\ status_ref' = status_ref
        /\ held_status' = Handed(status_ref, optimization_status)
        /\ UNCHANGED <<monitorVars, boot_time, menuVars>>

\* what the sysfs files and the three commands can return to one poll
ProbesTuned ==
    [boost |-> FileWith("1\n"), governor |-> FileWith("performance\n"),
     sysctl |-> Exit(0, "vm.swappiness = 10\n"),
     systemctl |-> Exit(0, "enabled\n"),
     gsettings |-> Exit(0, "false\n")]

ProbesUntuned ==
    [boost |-> FileWith("0\n"), governor |-> FileWith("powersave\n"),
     sysctl |-> Exit(0, "vm.swappiness = 60\n"),
     systemctl |-> Exit(1, "disabled\n"),
     gsettings |-> Exit(0, "true\n")]

FileStates == {MissingFile, UnreadableFile}
CommandFailures == {Exit(1, ""), NotFound, TimedOut}

\* every probe fails, each in one of the ways it can fail
ProbesFailing ==
    {[boost |-> f, governor |-> f, sysctl |-> c, systemctl |-> c, gsettings |-> c] :
        f \in FileStates, c \in CommandFailures}

\* p with one probe replaced
ProbeVariants(p) ==
    {p}
    \cup {[p EXCEPT !.boost = f] : f \in FileStates}
    \cup {[p EXCEPT !.governor = f] : f \in FileStates}
    \cup {[p EXCEPT !.sysctl = c] :
            c \in CommandFailures \cup {Exit(0, "vm.swappiness = 100\n")}}
    \cup {[p EXCEPT !.systemctl = c] : c \in CommandFailures}
    \cup {[p EXCEPT !.gsettings = c] : c \in CommandFailures}

PollProbes == ProbeVariants(ProbesTuned) \cup ProbeVariants(ProbesUntuned) \cup ProbesFailing

NoProbes ==
    [boost |-> MissingFile, governor |-> MissingFile, sysctl |-> NotFound,
     systemctl |-> NotFound, gsettings |-> NotFound]

----------------------------------------------------------------------------
(* Initial states: SystemMonitor.__init__ and PopOsDashboard.__init__ *)

\* what __init__ read: the counters may be None on a host without disks
ConstructionReadings(R) ==
    R \cup {[c EXCEPT !.disk_io = None] : c \in R}

\* nothing was asked of the menu yet; scripts/config.sh is as the files below
InitMenu ==
    /\ mode = "none"
    /\ confirm = "none"
    /\ op_pc = 0
    /\ steps = <<>>
    /\ globbed = <<>>
    /\ listing = <<>>
    /\ backup_choice = <<>>
    /\ selected = None
    /\ restored = None
    /\ config = None
    /\ config_before = None
    /\ preset_name = <<>>
    /\ set_result = "none"
    /\ get_result = None

\* line 193, and main at line 1276: the dashboard starts in the menu
InitLive ==
    /\ running = TRUE
    /\ phase = "menu"
    /\ pc = "choice"
    /\ cycles = 0
    /\ cycle_ticks = 0
    /\ cycle_polls = 0
    /\ sampled = [metrics |-> DefaultMetrics, status |-> DefaultStatus]
    /\ shown = [metrics |-> DefaultMetrics, status |-> DefaultStatus]
    /\ loop_exit = "none"
    /\ entries = 0
    /\ handled = 0
    /\ InitMenu

\* a constructor that stores no counters: the first call has no prior reference
InitWithoutReference(R, Boots) ==
    \E c \in R, b \in Boots :
        /\ boot_time = b
        /\ metrics = DefaultMetrics
        /\ last_disk_io = None
        /\ last_net_io = None
        /\ last_time = c.time
        /\ cpu_history = <<>>
        /\ memory_history = <<>>
        /\ cpu_log = <<>>
        /\ memory_log = <<>>
        /\ reading = c
        /\ ticks = 0
        /\ tick_outcome = "none"
        /\ tick_raised = FALSE
        /\ error_log = 0
        /\ optimization_status = DefaultStatus
        /\ probes = NoProbes
        /\ polls = 0
        /\ poll_outcome = "none"
        /\ poll_raised = FALSE
        /\ same_backing = FALSE
        /\ metrics_ref = 1
        /\ status_ref = 2
        /\ held_metrics = Handed(1, DefaultMetrics)
        /\ held_status = Handed(2, DefaultStatus)
        /\ InitLive

\* lines 101-107 and 188-194
InitWith(R, Boots) ==
    \E c \in R, b \in Boots :
        /\ boot_time = b
        /\ metrics = DefaultMetrics
        /\ last_disk_io = c.disk_io
        /\ last_net_io = c.net_io
        /\ last_time = c.time
        /\ cpu_history = <<>>
        /\ memory_history = <<>>
        /\ cpu_log = <<>>
        /\ memory_log = <<>>
        /\ reading = c
        /\ ticks = 0
        /\ tick_outcome = "none"
        /\ tick_raised = FALSE
        /\ error_log = 0
        /\ optimization_status = DefaultStatus
        /\ probes = NoProbes
        /\ polls = 0
        /\ poll_outcome = "none"
        /\ poll_raised = FALSE
        /\ same_backing = FALSE
        /\ metrics_ref = 1
        /\ status_ref = 2
        /\ held_metrics = Handed(1, DefaultMetrics)
        /\ held_status = Handed(2, DefaultStatus)
        /\ InitLive

InitRates == InitWith(ConstructionReadings(CounterReadings), {-12300})
InitFaults == InitWith(ConstructionReadings({[ProfileA EXCEPT !.time = 0]}), {-12300})
InitHistory == InitWith({[ProfileA EXCEPT !.time = 0]}, {-12300})
InitUptime == InitWith({[ProfileA EXCEPT !.time = 0]}, (-MaxUptime)..2)
InitPoll == InitWith({[ProfileA EXCEPT !.time = 0]}, {-12300})

\* update_metrics and check_optimization_status called on their own, as by the
\* menu (lines 884-885) and by --status (lines 1269-1270)
TickRates ==
    /\ ticks < MaxTicks
    /\ \E in \in RateReadings : Tick(in)
    /\ UNCHANGED liveVars
TickFaults ==
    /\ ticks < MaxTicks
    /\ \E in \in FaultReadings : Tick(in)
    /\ UNCHANGED liveVars
TickHistory ==
    /\ ticks < MaxHistoryTicks
    /\ \E in \in HistoryReadings(ticks) :
          /\ in.fails # {} => error_log < MaxHistoryFaults
          /\ Tick(in)
    /\ UNCHANGED liveVars
TickUptime ==
    /\ ticks < MaxTicks
    /\ \E in \in UptimeReadings(boot_time) : Tick(in)
    /\ UNCHANGED liveVars

PollAny ==
    /\ polls < MaxPolls
    /\ \E p \in PollProbes : Poll(p)
    /\ UNCHANGED liveVars

\* a driver that calls the two in any order
DriverReadings ==
    {[ProfileA EXCEPT !.time = 1], [ProfileB EXCEPT !.time = 2],
     [ProfileB EXCEPT !.time = 2, !.fails = {"virtual_memory"}]}
DriverProbes ==
    {ProbesTuned, ProbesUntuned, [ProbesTuned EXCEPT !.boost = UnreadableFile]}

TickDriver ==
    /\ ticks < MaxTicks
    /\ \E in \in DriverReadings : Tick(in)
    /\ UNCHANGED liveVars
PollDriver ==
    /\ polls < MaxPolls
    /\ \E p \in DriverProbes : Poll(p)
    /\ UNCHANGED liveVars

SpecRates == InitRates /\ [][TickRates]_vars
SpecFaults == InitFaults /\ [][TickFaults]_vars
SpecHistory == InitHistory /\ [][TickHistory]_vars
SpecUptime == InitUptime /\ [][TickUptime]_vars
SpecPoll == InitPoll /\ [][PollAny]_vars
SpecDriver == InitPoll /\ [][TickDriver \/ PollDriver]_vars

----------------------------------------------------------------------------
(* PopOsDashboard.run_live_dashboard, entered from menu option 1 *)

(***************************************************************************)
(* The statements of lines 542-546 (phase "init") and of the loop body,    *)
(* lines 552-561 (phase "loop"), are the same five calls; pc names the one *)
(* that is next.  A KeyboardInterrupt is taken between two statements.     *)
(* One that arrives inside the bare except blocks of update_metrics or     *)
(* check_optimization_status is swallowed there: it is a failing read of   *)
(* that call.                                                              *)
(***************************************************************************)

\* what the n-th update_metrics call of a dashboard reads: every call finds
\* the host changed since the call before it
LiveReadings(n) ==
    {[(IF n % 2 = 0 THEN ProfileA ELSE ProfileB) EXCEPT !.time = 1 + (n % 2)]}
LiveProbes == {ProbesTuned, ProbesUntuned}

flowVars == <<running, phase, cycles, loop_exit, entries, handled>>

\* run_live_dashboard returns, or is left by an exception, to interactive_menu
Leave(how) ==
    /\ phase' = "menu"
    /\ pc' = "choice"
    /\ loop_exit' = how

\* an exception other than KeyboardInterrupt raised by the statement at pc:
\* lines 566-569 in the loop, lines 570-573 before it
Raised ==
    IF phase = "loop"
    THEN /\ pc' = "handler"
         /\ UNCHANGED <<running, phase, cycles, loop_exit, entries, handled>>
    ELSE /\ Leave("init_error")
         /\ UNCHANGED <<running, cycles, entries, handled>>

\* menu option 1 without line 937
SelectLiveNoReset ==
    /\ phase = "menu"
    /\ entries < MaxEntries
    /\ entries' = entries + 1
    /\ running' = running
    /\ phase' = "init"
    /\ pc' = "tick"
    /\ cycle_ticks' = 0
    /\ cycle_polls' = 0
    /\ cycles' = 0
    /\ UNCHANGED <<monitorVars, statusVars, boot_time, menuVars, sampled, shown,
                   loop_exit, handled>>

\* lines 933-938: menu option 1 resets running and calls run_live_dashboard
SelectLive ==
    /\ phase = "menu"
    /\ entries < MaxEntries
    /\ entries' = entries + 1
    /\ running' = TRUE
    /\ phase' = "init"
    /\ pc' = "tick"
    /\ cycle_ticks' = 0
    /\ cycle_polls' = 0
    /\ cycles' = 0
    /\ UNCHANGED <<monitorVars, statusVars, boot_time, menuVars, sampled, shown,
                   loop_exit, handled>>

\* line 542, line 552: self.monitor.update_metrics()
LiveTick ==
    /\ phase \in {"init", "loop"}
    /\ pc = "tick"
    /\ \E in \in LiveReadings(ticks) : Tick(in)
    /\ cycle_ticks' = cycle_ticks + 1
    /\ sampled' = [sampled EXCEPT !.metrics = metrics']
    /\ pc' = "poll"
    /\ UNCHANGED <<flowVars, cycle_polls, shown>>

\* line 543, line 553: self.check_optimization_status()
LivePoll ==
    /\ phase \in {"init", "loop"}
    /\ pc = "poll"
    /\ \E p \in LiveProbes : Poll(p)
    /\ cycle_polls' = cycle_polls + 1
    /\ sampled' = [sampled EXCEPT !.status = optimization_status']
    /\ pc' = "metrics_panel"
    /\ UNCHANGED <<flowVars, cycle_ticks, shown>>

\* line 544, line 556: create_system_metrics_panel, lines 256-358, calls
\* update_metrics itself and renders self.metrics
MetricsPanel ==
    /\ phase \in {"init", "loop"}
    /\ pc = "metrics_panel"
    /\ \E in \in LiveReadings(ticks) : Tick(in)
    /\ cycle_ticks' = cycle_ticks + 1
    /\ UNCHANGED <<cycle_polls, sampled>>
    /\ \/ /\ shown' = [shown EXCEPT !.metrics = metrics']
          /\ pc' = "status_panel"
          /\ UNCHANGED flowVars
       \/ /\ shown' = shown
          /\ Raised

\* line 545, line 557: create_optimization_status_panel, lines 375-409, calls
\* check_optimization_status itself and renders self.optimization_status
StatusPanel ==
    /\ phase \in {"init", "loop"}
    /\ pc = "status_panel"
    /\ \E p \in LiveProbes : Poll(p)
    /\ cycle_polls' = cycle_polls + 1
    /\ UNCHANGED <<cycle_ticks, sampled>>
    /\ \/ /\ shown' = [shown EXCEPT !.status = optimization_status']
          /\ pc' = "processes_panel"
          /\ UNCHANGED flowVars
       \/ /\ shown' = shown
          /\ Raised

\* line 546, then line 548 enters the loop; line 558, then the sleep
ProcessesPanel ==
    /\ phase \in {"init", "loop"}
    /\ pc = "processes_panel"
    /\ UNCHANGED <<monitorVars, statusVars, boot_time, menuVars, cycle_ticks, cycle_polls,
                   sampled, shown>>
    /\ \/ /\ phase' = "loop"
          /\ pc' = IF phase = "init" THEN "test" ELSE "sleep"
          /\ UNCHANGED <<running, cycles, loop_exit, entries, handled>>
       \/ Raised

\* line 549: while self.running
Test ==
    /\ phase = "loop"
    /\ pc = "test"
    /\ UNCHANGED <<monitorVars, statusVars, boot_time, menuVars, sampled, shown, running,
                   entries, handled>>
    /\ IF running
       THEN /\ cycles < MaxCycles
            /\ cycles' = cycles + 1
            /\ cycle_ticks' = 0
            /\ cycle_polls' = 0
            /\ pc' = "tick"
            /\ UNCHANGED <<phase, loop_exit>>
       ELSE /\ Leave("condition_false")
            /\ UNCHANGED <<cycles, cycle_ticks, cycle_polls>>

\* line 561: time.sleep(self.refresh_rate)
Sleep ==
    /\ phase = "loop"
    /\ pc = "sleep"
    /\ pc' = "test"
    /\ UNCHANGED <<monitorVars, statusVars, boot_time, menuVars, flowVars, cycle_ticks,
                   cycle_polls, sampled, shown>>

\* lines 566-569: log the error, sleep, go on with the loop
Handler ==
    /\ phase = "loop"
    /\ pc = "handler"
    /\ handled' = handled + 1
    /\ pc' = "test"
    /\ UNCHANGED <<monitorVars, statusVars, boot_time, menuVars, running, phase, cycles,
                   loop_exit, entries, cycle_ticks, cycle_polls, sampled, shown>>

\* the statements inside the try block of lines 550-561
InLoopTry == {"tick", "poll", "metrics_panel", "status_panel", "processes_panel", "sleep"}

\* a KeyboardInterrupt: inside the loop's try block lines 563-565 take it;
\* anywhere else in run_live_dashboard no handler of the function matches
\* (lines 570-573 catch Exception only) and it reaches lines 939-941
Interrupt ==
    /\ phase \in {"init", "loop"}
    /\ UNCHANGED <<monitorVars, statusVars, boot_time, menuVars, cycles, cycle_ticks,
                   cycle_polls, sampled, shown, entries, handled>>
    /\ IF phase = "loop" /\ pc \in InLoopTry
       THEN /\ running' = FALSE
            /\ Leave("interrupt_caught")
       ELSE /\ running' = running
            /\ Leave("interrupt_escaped")

NextLive ==
    \/ SelectLive
    \/ LiveTick
    \/ LivePoll
    \/ MetricsPanel
    \/ StatusPanel
    \/ ProcessesPanel
    \/ Test
    \/ Sleep
    \/ Handler
    \/ Interrupt

SpecLive == InitPoll /\ [][NextLive]_vars

----------------------------------------------------------------------------
(* Claims about the rate fields, checked under SpecRates *)

RateFields == {"disk_read_speed", "disk_write_speed", "network_sent", "network_recv"}

Negative(q) == q.num < 0

\* the sources read before the disk rates, and before the network rates, are set
BeforeDiskRates ==
    {"cpu_percent", "cpu_freq", "getloadavg", "virtual_memory", "swap_memory",
     "disk_usage", "disk_io_counters"}
BeforeNetRates == BeforeDiskRates \cup {"net_io_counters"}

\* q is the float bytes / seconds / 1048576
IsMBps(q, bytes, seconds) == q.num * (seconds * 1048576) = bytes * q.den

\* C1: on every tick after the first all four rate fields are >= 0, also when
\* a raw byte counter read in the tick is smaller than the stored one.
C1_RatesNeverNegative ==
    ticks >= 2 => \A f \in RateFields : ~Negative(metrics[f])

FirstDiskRatesSet ==
    /\ reading'.fails \cap BeforeDiskRates = {}
    /\ reading.disk_io # None
    /\ reading'.time - reading.time > 0
    /\ reading'.disk_io # None

FirstDiskRatesRaise ==
    /\ reading.disk_io # None
    /\ reading'.time - reading.time > 0
    /\ reading'.disk_io = None

FirstNetRatesSet ==
    /\ reading'.fails \cap BeforeNetRates = {}
    /\ ~FirstDiskRatesRaise
    /\ reading.net_io # None
    /\ reading'.time - reading.time > 0
    /\ reading'.net_io # None

ConsecutiveTicks ==
    /\ ticks >= 1
    /\ ticks' = ticks + 1
    /\ ~tick_raised
    /\ ~tick_raised'
    /\ reading'.time - reading.time > 0
    /\ reading.disk_io # None /\ reading'.disk_io # None
    /\ reading.net_io # None /\ reading'.net_io # None
    /\ reading'.disk_io[1].read_bytes >= reading.disk_io[1].read_bytes
    /\ reading'.disk_io[1].write_bytes >= reading.disk_io[1].write_bytes
    /\ reading'.net_io[1].bytes_sent >= reading.net_io[1].bytes_sent
    /\ reading'.net_io[1].bytes_recv >= reading.net_io[1].bytes_recv

\* C7: for two consecutive ticks with elapsed > 0 and non-decreasing counters
\* each rate field is (currentBytes - lastBytes) / elapsed / 1048576 with the
\* bytes and the time of the previous tick; 0 -> 10485760 read bytes in 2 s
\* is a disk_read_speed of 5.0.
C7_RateIsDeltaPerSecondInMB ==
    [][ConsecutiveTicks =>
        LET elapsed == reading'.time - reading.time
        IN  /\ \A f \in RateFields : metrics'[f].den > 0
            /\ IsMBps(metrics'.disk_read_speed,
                      reading'.disk_io[1].read_bytes - reading.disk_io[1].read_bytes, elapsed)
            /\ IsMBps(metrics'.disk_write_speed,
                      reading'.disk_io[1].write_bytes - reading.disk_io[1].write_bytes, elapsed)
            /\ IsMBps(metrics'.network_sent,
                      reading'.net_io[1].bytes_sent - reading.net_io[1].bytes_sent, elapsed)
            /\ IsMBps(metrics'.network_recv,
                      reading'.net_io[1].bytes_recv - reading.net_io[1].bytes_recv, elapsed)
            /\ (/\ reading.disk_io[1].read_bytes = 0
                /\ reading'.disk_io[1].read_bytes = 10485760
                /\ elapsed = 2)
               => metrics'.disk_read_speed = [num |-> 5, den |-> 1]
      ]_vars

\* the second of two completed calls, 2 s after the first, reports 5.0 MB/s
\* for read bytes that went from 0 to 10485760
C7_Witness ==
    /\ ticks = 2
    /\ error_log = 0
    /\ reading.time = 2
    /\ last_time = 2
    /\ reading.disk_io # None
    /\ reading.disk_io[1].read_bytes = 10485760
    /\ metrics.disk_read_speed = [num |-> 5, den |-> 1]
    /\ metrics.disk_write_speed = [num |-> 5, den |-> 2]

----------------------------------------------------------------------------
(* Claims about the history windows, checked under SpecHistory *)

\* the last n entries of log, all of it when it has fewer
LastOf(log, n) ==
    IF Len(log) <= n THEN log ELSE SubSeq(log, Len(log) - n + 1, Len(log))

\* C3: cpu_history and memory_history never hold more than 60 entries, and
\* each holds the last 60 values appended to it (all of them while fewer were
\* appended), in arrival order.
C3_HistoryIsLast60 ==
    /\ Len(cpu_history) <= 60
    /\ Len(memory_history) <= 60
    /\ cpu_history = LastOf(cpu_log, 60)
    /\ memory_history = LastOf(memory_log, 60)

\* 100 calls appended 100 values: the window starts at the 41st of them
C3_Witness ==
    /\ ticks = 100
    /\ Len(cpu_log) = 100
    /\ Len(memory_log) = 100
    /\ Len(cpu_history) = 60
    /\ cpu_history[1] = cpu_log[41]
    /\ cpu_history[1] # cpu_log[1]
    /\ memory_history[60] = memory_log[100]

----------------------------------------------------------------------------
(* Claims about the uptime text, checked under SpecUptime *)

\* C8: for an uptime of s >= 0 whole seconds the uptime text is "<H>h <M>m"
\* with H = s div 3600 and M = (s mod 3600) div 60, so M is in 0..59 and the
\* minutes are cut off, never rounded up; 3 h 25 m reads "3h 25m".
C8_UptimeIsWholeHoursAndMinutes ==
    (ticks >= 1 /\ reading.uptime >= 0) =>
        LET s == reading.uptime
            H == s \div 3600
            M == (s % 3600) \div 60
        IN  /\ metrics.uptime = ToString(H) \o "h " \o ToString(M) \o "m"
            /\ M \in 0..59
            /\ H * 3600 + M * 60 <= s
            /\ s < H * 3600 + M * 60 + 60
            /\ s \in 12300..12359 => metrics.uptime = "3h 25m"
            /\ s = 3599 => metrics.uptime = "0h 59m"

\* a call on a host that booted 3 h 25 m 59 s before
C8_Witness ==
    /\ ticks >= 1
    /\ reading.uptime = 12359
    /\ reading.time - boot_time = 12359
    /\ metrics.uptime = "3h 25m"

----------------------------------------------------------------------------
(* Claims about failing sources, checked under SpecFaults *)

\* the sensor map of the last call has no group with a CPU name, or the
\* sensors could not be read at all
NoCpuGroup(r) ==
    \/ "sensors_temperatures" \in r.fails
    \/ \A i \in 1..Len(r.sensors) : ~IsCpuName(r.sensors[i].name)

\* C6: after every tick whose sensor map has no CPU-named group (or that has
\* no sensors at all) the temperature is None, also when an earlier tick
\* found a CPU temperature.
C6_NoCpuGroupNoTemperature ==
    (ticks >= 1 /\ ~tick_raised /\ NoCpuGroup(reading)) => metrics.temperature = None

BasicSources == {"cpu_percent", "virtual_memory"}

\* the fields of SystemMetrics that a source feeds
FedBy(src) ==
    CASE src = "cpu_percent" -> {"cpu_percent"}
      [] src = "cpu_freq" -> {"cpu_freq"}
      [] src = "getloadavg" -> {"load_avg"}
      [] src = "virtual_memory" -> {"memory_percent", "memory_available", "memory_total"}
      [] src = "swap_memory" -> {"swap_percent"}
      [] src = "disk_usage" -> {"disk_usage"}
      [] src = "disk_io_counters" -> {"disk_read_speed", "disk_write_speed"}
      [] src = "net_io_counters" -> {"network_sent", "network_recv"}
      [] src = "boot_time" -> {"uptime"}
      [] src = "sensors_temperatures" -> {"temperature"}

\* C9: in a tick where exactly one non-basic source cannot be read, the
\* fields fed by that source take their defaults and every other field is
\* what the tick computes from its readings.
C9_OneFailureDegradesOnlyItsFields ==
    [][(/\ ticks' = ticks + 1
        /\ Cardinality(reading'.fails) = 1
        /\ reading'.fails \cap BasicSources = {})
       =>
        LET src == CHOOSE x \in reading'.fails : TRUE
            whole == UpdateMetrics(Monitor, [reading' EXCEPT !.fails = {}]).metrics
        IN  \A f \in DOMAIN DefaultMetrics :
                metrics'[f] = IF f \in FedBy(src) THEN DefaultMetrics[f] ELSE whole[f]
      ]_vars

----------------------------------------------------------------------------
(* Claims about the status record, checked under SpecPoll *)

AllProbesFail(p) ==
    /\ p.boost.state # "ok"
    /\ p.governor.state # "ok"
    /\ \A c \in {p.sysctl, p.systemctl, p.gsettings} :
          ~(c.outcome = "exit" /\ c.returncode = 0)

\* C4: a poll in which every probe fails does not raise and leaves the record
\* fully defaulted, cpu_governor "unknown" and the booleans false, whatever
\* earlier polls found.
C4_AllProbesFailGivesDefaults ==
    (polls >= 1 /\ AllProbesFail(probes)) =>
        /\ poll_outcome = "returned"
        /\ optimization_status.cpu_governor = <<"u", "n", "k", "n", "o", "w", "n">>
        /\ ~optimization_status.cpu_boost
        /\ ~optimization_status.memory_optimized
        /\ ~optimization_status.ssd_optimized
        /\ ~optimization_status.desktop_optimized

\* C5: a poll that finds the backing state the poll before it found leaves
\* every field of the record as that poll left it.
C5_PollTwiceSameRecord ==
    [][(polls >= 1 /\ polls' = polls + 1 /\ probes' = probes) =>
        \A f \in DOMAIN DefaultStatus : optimization_status'[f] = optimization_status[f]
      ]_vars

\* the second of two polls of a tuned host, whose record is not the default one
C5_Witness ==
    /\ polls >= 2
    /\ same_backing
    /\ probes.governor.state = "ok"
    /\ optimization_status.cpu_governor # <<"u", "n", "k", "n", "o", "w", "n">>
    /\ optimization_status.memory_optimized

----------------------------------------------------------------------------
(* Claims about the fields of the status record, checked under SpecPoll *)

StatusFields ==
    {"cpu_boost", "cpu_governor", "memory_optimized", "ssd_optimized",
     "desktop_optimized"}

\* the command ran and ended with exit code 0
Succeeded(c) == c.outcome = "exit" /\ c.returncode = 0

\* what each field is to be after a poll that finds p, resolved from the
\* field's own probe alone, the default when that probe fails
BoostOf(p) == p.boost.state = "ok" /\ Strip(p.boost.text) = <<"1">>
GovernorOf(p) ==
    IF p.governor.state = "ok" THEN Strip(p.governor.text)
    ELSE <<"u", "n", "k", "n", "o", "w", "n">>
MemoryOf(p) ==
    /\ Succeeded(p.sysctl)
    /\ Contains(p.sysctl.stdout,
                <<"v", "m", ".", "s", "w", "a", "p", "p", "i", "n", "e", "s", "s",
                  " ", "=", " ", "1", "0">>)
SsdOf(p) == Succeeded(p.systemctl)
DesktopOf(p) ==
    /\ Succeeded(p.gsettings)
    /\ Contains(Lower(p.gsettings.stdout), <<"f", "a", "l", "s", "e">>)

ResolvedAlone(p) ==
    [cpu_boost |-> BoostOf(p), cpu_governor |-> GovernorOf(p),
     memory_optimized |-> MemoryOf(p), ssd_optimized |-> SsdOf(p),
     desktop_optimized |-> DesktopOf(p)]

\* C11: each of the five fields is resolved independently: a failure while
\* resolving one field (missing or unreadable file, non-zero exit, missing
\* binary, timeout) sets that field to its default and every other field is
\* still resolved from its own probe in the same poll.
C11_FieldsResolvedIndependently ==
    polls >= 1 =>
        \A f \in StatusFields : optimization_status[f] = ResolvedAlone(probes)[f]

\* C12: a poll in which a command exceeds its timeout does not raise, and the
\* field of that command is false after it, whatever it was before.
C12_TimeoutGivesDefault ==
    polls >= 1 =>
        /\ poll_outcome = "returned"
        /\ probes.sysctl.outcome = "timeout" => ~optimization_status.memory_optimized
        /\ probes.systemctl.outcome = "timeout" => ~optimization_status.ssd_optimized
        /\ probes.gsettings.outcome = "timeout" => ~optimization_status.desktop_optimized

\* C15: after every poll ssd_optimized is true iff systemctl is-enabled
\* fstrim.timer ended with exit code 0 in that poll.
C15_SsdIffTrimTimerEnabled ==
    polls >= 1 => (optimization_status.ssd_optimized <=> SsdOf(probes))

\* C16: after every poll memory_optimized is true iff the sysctl output of
\* that poll contains "vm.swappiness = 10"; a swappiness that moved away from
\* 10 between two polls leaves it false.
C16_MemoryIffSwappiness10 ==
    polls >= 1 => (optimization_status.memory_optimized <=> MemoryOf(probes))

\* C17: after every poll cpu_governor is the trimmed text of the
\* scaling_governor file as read in that poll, "unknown" when the file is
\* missing or unreadable in that poll.
C17_GovernorIsTrimmedFileOrUnknown ==
    polls >= 1 => optimization_status.cpu_governor = GovernorOf(probes)

\* C18: after every poll cpu_boost is true iff the boost file was readable in
\* that poll and its trimmed content is "1".
C18_BoostIffFileIsOne ==
    polls >= 1 => (optimization_status.cpu_boost <=> BoostOf(probes))

\* C19: after every poll desktop_optimized is true iff the gsettings query
\* of that poll succeeded and its output, lower-cased, contains "false".
C19_DesktopIffAnimationsFalse ==
    polls >= 1 => (optimization_status.desktop_optimized <=> DesktopOf(probes))

----------------------------------------------------------------------------
(* Claims about the records handed out, checked under SpecFaults and SpecPoll *)

\* the fields that the object a held reference refers to has now: the object
\* that the monitor (the dashboard) still refers to has the current fields, an
\* object it no longer refers to is written by nobody
MetricsOf(held) == IF held.ref = metrics_ref THEN metrics ELSE held.seen
StatusOf(held) == IF held.ref = status_ref THEN optimization_status ELSE held.seen

\* C13: the record obtained after tick (poll) n has the field values it had
\* then also after tick (poll) n+1 has run.
C13_HandedRecordNeverMutated ==
    /\ ticks >= 2 => MetricsOf(held_metrics) = held_metrics.seen
    /\ polls >= 2 => StatusOf(held_status) = held_status.seen

----------------------------------------------------------------------------
(* Claims about a clock that does not advance, checked under SpecRates *)

\* C14: a tick with elapsed = now - last_time <= 0 leaves all four rate
\* fields 0, not the values of an earlier tick.
C14_NoElapsedTimeRatesZero ==
    [][(ticks' = ticks + 1 /\ reading'.time - last_time <= 0) =>
        \A f \in RateFields : metrics'[f] = Zero
      ]_vars

----------------------------------------------------------------------------
(* Claims about the temperature selection, checked under SpecFaults *)

\* the call reached the sensors and read a map from them
SensorsScanned ==
    /\ ticks' = ticks + 1
    /\ ~tick_raised'
    /\ "sensors_temperatures" \notin reading'.fails

\* the groups of a map whose name has "coretemp" or "cpu" in it, in any case
CpuGroups(temps) == {i \in 1..Len(temps) : IsCpuName(temps[i].name)}
First(S) == CHOOSE i \in S : \A j \in S : i <= j

\* C20 as stated: the first group with a CPU name is selected and its first
\* reading taken; no group after it determines the temperature.
C20_FirstCpuGroupSelected ==
    [][(SensorsScanned /\ CpuGroups(reading'.sensors) # {}) =>
        LET group == reading'.sensors[First(CpuGroups(reading'.sensors))]
        IN  IF group.entries # <<>>
            THEN metrics'.temperature = <<group.entries[1]>>
            ELSE metrics'.temperature = metrics.temperature
      ]_vars

\* C20 (amended): the first group that has a CPU name and at least one
\* reading is selected and its first reading taken; CPU-named groups without
\* readings are passed over and no group after the selected one determines
\* the temperature. {acpitz: [27], coretemp: [55, 60]} yields 55.
C20_FirstCpuGroupWithReadingSelected ==
    [][SensorsScanned =>
        LET temps == reading'.sensors
            withReading == {i \in CpuGroups(temps) : Len(temps[i].entries) >= 1}
        IN  /\ withReading # {} =>
                metrics'.temperature = <<temps[First(withReading)].entries[1]>>
            /\ temps = SensorsCore => metrics'.temperature = <<55>>
      ]_vars

\* a call that passed over a coretemp group without readings and took the
\* reading of the CPU_Thermal group after it
C20_Witness ==
    /\ ticks >= 1
    /\ ~tick_raised
    /\ reading.sensors = SensorsEmptyGroup
    /\ "sensors_temperatures" \notin reading.fails
    /\ metrics.temperature = <<70>>

----------------------------------------------------------------------------
(* Claims about the two components side by side, checked under SpecDriver *)

\* what update_metrics works on
SamplerState ==
    <<metrics, last_disk_io, last_net_io, last_time, cpu_history, memory_history>>

\* C21: update_metrics leaves the status record unchanged, and
\* check_optimization_status leaves the metrics, the last raw counters, the
\* last timestamp and both history windows unchanged, in every interleaving
\* of whole calls.
C21_TickAndPollShareNoState ==
    [][/\ ticks' = ticks + 1 => (optimization_status' = optimization_status /\ polls' = polls)
       /\ polls' = polls + 1 => (SamplerState' = SamplerState /\ ticks' = ticks)
      ]_vars

\* a tick between two polls and a poll between two ticks, none on defaults
C21_Witness ==
    /\ ticks >= 2
    /\ polls >= 2
    /\ optimization_status # DefaultStatus
    /\ metrics.cpu_percent # 0
    /\ last_time > 0

----------------------------------------------------------------------------
(* Claims about the two history windows, checked under SpecFaults *)

\* C23: after any sequence of update_metrics calls, also calls in which a
\* source read raises part-way, cpu_history and memory_history have the same
\* length and their i-th entries come from the same call: a call appends to
\* both windows or to neither.
C23_HistoriesAligned ==
    [][ticks' = ticks + 1 =>
        /\ Len(cpu_history') = Len(memory_history')
        /\ (Len(cpu_log') = Len(cpu_log) + 1) <=> (Len(memory_log') = Len(memory_log) + 1)
      ]_vars

----------------------------------------------------------------------------
(* Claims about the live dashboard, checked under SpecLive *)

\* C22: in every refresh cycle the driver makes one update_metrics call and
\* one check_optimization_status call and hands the records of those two
\* calls to the panels: no further sampling between the tick and the
\* rendering of its snapshot.
C22_OneTickOnePollPerCycle ==
    (phase = "loop" /\ pc = "sleep") =>
        /\ cycle_ticks = 1
        /\ cycle_polls = 1
        /\ shown = sampled

Interrupted == {"interrupt_caught", "interrupt_escaped"}

\* C24 as stated: the loop goes on after an exception other than
\* KeyboardInterrupt, it is left only by a KeyboardInterrupt, which sets
\* running to False, and menu option 1 sets running to True, so that the loop
\* runs again.
C24_LoopLeftOnlyWithRunningFalse ==
    [][/\ pc' = "handler" => (phase' = "loop" /\ running')
       /\ (pc = "handler" /\ phase' = "loop") => pc' = "test"
       /\ (phase = "loop" /\ phase' = "menu") =>
             (loop_exit' \in Interrupted /\ ~running')
       /\ (phase = "menu" /\ phase' = "init") => running'
       /\ (phase' = "loop" /\ pc' = "test") => running'
      ]_vars

\* C24 (amended): the same, but a KeyboardInterrupt sets running to False
\* only when it arrives inside the try block of the loop body; one that
\* arrives in the error handler (lines 566-569) or at the loop condition
\* leaves run_live_dashboard with running still True.
C24_LoopLeftOnlyByInterrupt ==
    [][/\ pc' = "handler" => (phase' = "loop" /\ running')
       /\ (pc = "handler" /\ phase' = "loop") => pc' = "test"
       /\ (phase = "loop" /\ phase' = "menu") =>
             /\ loop_exit' \in Interrupted
             /\ (pc \in InLoopTry) => (loop_exit' = "interrupt_caught" /\ ~running')
             /\ (pc \notin InLoopTry) => (loop_exit' = "interrupt_escaped" /\ running')
       /\ (phase = "menu" /\ phase' = "init") => running'
       /\ (phase' = "loop" /\ pc' = "test") => running'
      ]_vars

\* the loop runs again after an interrupt that set running to False, having
\* handled an exception on the way
C24_Witness ==
    /\ entries = 2
    /\ loop_exit = "interrupt_caught"
    /\ handled >= 1
    /\ phase = "loop"
    /\ pc = "tick"
    /\ running

----------------------------------------------------------------------------
(* The full optimization: menu option 11 and the --optimize flag *)

dashboardVars == <<monitorVars, statusVars, boot_time, liveVars>>

\* lines 982-987 without the backup first: the backup follows the CPU step
FullPlanCpuFirst(m) ==
    IF m = "menu"
    THEN <<"optimize_cpu", "create_backup", "optimize_memory", "optimize_ssd",
           "optimize_desktop", "optimize_services">>
    ELSE <<"optimize_cpu", "create_backup", "optimize_memory">>

\* the calls of lines 982-987 (menu option 11) and of lines 1264-1266
\* (--optimize), in the order of the statements
FullPlan(m) ==
    IF m = "menu"
    THEN <<"create_backup", "optimize_cpu", "optimize_memory", "optimize_ssd",
           "optimize_desktop", "optimize_services">>
    ELSE <<"create_backup", "optimize_cpu", "optimize_memory">>

\* how a call can end: create_backup_with_progress returns the path or raises
\* (line 579 is outside any try); an optimize_* call returns True or False, or
\* is left by an exception its handlers do not take (a KeyboardInterrupt at the
\* sudo prompt, for one)
Endings(call) ==
    IF call = "create_backup"
    THEN {"returned", "raised"}
    ELSE {"returned_true", "returned_false", "raised"}

Event(call, what) == [call |-> call, what |-> what]

\* a call is under way: the last event is its start
InCall == steps # <<>> /\ steps[Len(steps)].what = "start"

\* lines 979-981: option 11 asks for confirmation
ChooseFull ==
    /\ mode = "none"
    /\ \E answer \in {"yes", "no"} :
          /\ confirm' = answer
          /\ op_pc' = IF answer = "yes" THEN 1 ELSE 0
    /\ mode' = "menu"
    /\ steps' = <<>>
    /\ UNCHANGED <<dashboardVars, restoreVars, presetVars>>

\* lines 1262-1263: --optimize asks nothing
RunFlag ==
    /\ mode = "none"
    /\ mode' = "flag"
    /\ op_pc' = 1
    /\ steps' = <<>>
    /\ UNCHANGED <<confirm, dashboardVars, restoreVars, presetVars>>

\* the statement at op_pc is entered
StartCall ==
    /\ op_pc \in 1..Len(FullPlan(mode))
    /\ ~InCall
    /\ steps' = Append(steps, Event(FullPlan(mode)[op_pc], "start"))
    /\ UNCHANGED <<mode, confirm, op_pc, dashboardVars, restoreVars, presetVars>>

\* the call under way ends: its return value is not looked at and the next
\* statement follows, an exception leaves the whole sequence
EndCall ==
    /\ op_pc \in 1..Len(FullPlan(mode))
    /\ InCall
    /\ \E what \in Endings(steps[Len(steps)].call) :
          /\ steps' = Append(steps, Event(steps[Len(steps)].call, what))
          /\ op_pc' = IF what = "raised" \/ op_pc = Len(FullPlan(mode))
                      THEN 0 ELSE op_pc + 1
    /\ UNCHANGED <<mode, confirm, dashboardVars, restoreVars, presetVars>>

NextOptimize == ChooseFull \/ RunFlag \/ StartCall \/ EndCall

SpecOptimize == InitPoll /\ [][NextOptimize]_vars

----------------------------------------------------------------------------
(* Claims about the full optimization, checked under SpecOptimize *)

OptimizeOrder ==
    <<"optimize_cpu", "optimize_memory", "optimize_ssd", "optimize_desktop",
      "optimize_services">>

\* the optimize_* calls started so far, in the order of their starts
RECURSIVE StartedOptimize(_)
StartedOptimize(log) ==
    IF log = <<>> THEN <<>>
    ELSE LET e == log[Len(log)]
             before == StartedOptimize(SubSeq(log, 1, Len(log) - 1))
         IN  IF e.what = "start" /\ e.call # "create_backup"
             THEN Append(before, e.call) ELSE before

\* C25: whenever a full optimization runs, from menu option 11 or from
\* --optimize, create_backup_with_progress has returned before the first
\* optimize_* call starts; when the confirmation of the menu is declined no
\* call is made at all; and the optimize_* calls start in the order cpu,
\* memory, ssd, desktop, services, each after the one before it has ended.
C25_BackupFirstThenStepsInOrder ==
    /\ \A i \in 1..Len(steps) :
          (steps[i].what = "start" /\ steps[i].call # "create_backup") =>
              /\ \E j \in 1..(i - 1) : steps[j] = Event("create_backup", "returned")
              /\ steps[i - 1].what # "start"
    /\ (mode = "menu" /\ confirm = "no") => steps = <<>>
    /\ Len(StartedOptimize(steps)) <= Len(OptimizeOrder)
    /\ StartedOptimize(steps) = SubSeq(OptimizeOrder, 1, Len(StartedOptimize(steps)))
    /\ (mode = "menu" /\ op_pc = 0 /\ steps # <<>> /\ steps[Len(steps)].what # "raised") =>
          StartedOptimize(steps) = OptimizeOrder

\* a confirmed menu run that got through all six calls, one of them reporting
\* failure by its return value
C25_Witness ==
    /\ mode = "menu"
    /\ confirm = "yes"
    /\ op_pc = 0
    /\ Len(steps) = 12
    /\ steps[2] = Event("create_backup", "returned")
    /\ steps[4] = Event("optimize_cpu", "returned_false")
    /\ steps[12] = Event("optimize_services", "returned_true")

----------------------------------------------------------------------------
(* The restore menu: option 16 *)

(***************************************************************************)
(* A backup file backup_<stamp>.tar.gz is the number of its stamp: the     *)
(* stamps have one width, so that the order of the paths is the order of   *)
(* the numbers.  glob returns the files of the directory in the order the  *)
(* file system hands them out, which is any order.                         *)
(***************************************************************************)

Range(s) == {s[i] : i \in 1..Len(s)}

\* list(backup_dir.glob("backup_*.tar.gz")), line 1013
BackupLists == UNION {Permutations(1..k) : k \in 1..MaxBackups}

\* sorted(s) for distinct entries
Sorted(s) ==
    [i \in 1..Len(s) |->
        CHOOSE x \in Range(s) : Cardinality({y \in Range(s) : y < x}) = i - 1]

\* s[-n:]
LastEntries(s, n) == IF Len(s) <= n THEN s ELSE SubSeq(s, Len(s) - n + 1, Len(s))

Digits == {"0", "1", "2", "3", "4", "5", "6", "7", "8", "9"}

DigitValue(c) ==
    CASE c = "0" -> 0 [] c = "1" -> 1 [] c = "2" -> 2 [] c = "3" -> 3
      [] c = "4" -> 4 [] c = "5" -> 5 [] c = "6" -> 6 [] c = "7" -> 7
      [] c = "8" -> 8 [] c = "9" -> 9

\* str.isdigit() for ASCII text
IsDigit(s) == s # <<>> /\ \A i \in 1..Len(s) : s[i] \in Digits

\* int(s) for a text of digits
RECURSIVE IntOf(_)
IntOf(s) ==
    IF s = <<>> THEN 0
    ELSE 10 * IntOf(SubSeq(s, 1, Len(s) - 1)) + DigitValue(s[Len(s)])

\* what can be typed at line 1018; an empty entry gives the default "0"
Choices ==
    {<<"0">>, <<"1">>, <<"2">>, <<"3">>, <<"4">>, <<"5">>, <<"6">>, <<"7">>,
     <<"0", "2">>, <<"-", "1">>, <<"x">>}

\* lines 1019-1021: the entry of the glob list the number picks, if any
Picked(backups, choice) ==
    IF choice # <<"0">> /\ IsDigit(choice)
    THEN LET idx == IntOf(choice) - 1
         IN  IF 0 <= idx /\ idx < Len(backups) THEN Some(backups[idx + 1]) ELSE None
    ELSE None

\* lines 1011-1016: the directory is listed and its last five backups, in
\* sorted order, are printed with the numbers 1, 2, ...
ListBackups ==
    /\ globbed = <<>>
    /\ \E backups \in BackupLists :
          /\ globbed' = backups
          /\ listing' = LastEntries(Sorted(backups), ShowLast)
    /\ UNCHANGED <<backup_choice, selected, restored, dashboardVars, optimizeVars,
                   presetVars>>

\* lines 1018-1021: the number is read and looked up
AskNumber ==
    /\ globbed # <<>>
    /\ backup_choice = <<>>
    /\ \E choice \in Choices :
          /\ backup_choice' = choice
          /\ selected' = Picked(globbed, choice)
    /\ UNCHANGED <<globbed, listing, restored, dashboardVars, optimizeVars,
                   presetVars>>

\* lines 1022-1023: the restore of the backup looked up is confirmed
ConfirmRestore ==
    /\ selected # None
    /\ restored = None
    /\ \E answer \in BOOLEAN : restored' = IF answer THEN selected ELSE None
    /\ UNCHANGED <<globbed, listing, backup_choice, selected, dashboardVars,
                   optimizeVars, presetVars>>

NextRestore == ListBackups \/ AskNumber \/ ConfirmRestore

SpecRestore == InitPoll /\ [][NextRestore]_vars

----------------------------------------------------------------------------
(* Claims about the restore menu, checked under SpecRestore *)

\* C26: for every set of backup files, a number that is displayed next to a
\* backup selects, once confirmed, exactly the backup displayed next to it,
\* and an entry that is no displayed number selects nothing.
C26_NumberSelectsDisplayedBackup ==
    backup_choice # <<>> =>
        /\ IF IsDigit(backup_choice) /\ IntOf(backup_choice) \in 1..Len(listing)
           THEN selected = Some(listing[IntOf(backup_choice)])
           ELSE selected = None
        /\ restored # None => restored = selected

----------------------------------------------------------------------------
(* The preset in scripts/config.sh: get_current_preset and set_preset *)

(***************************************************************************)
(* The file is the sequence of its lines, each a tuple of characters       *)
(* without the newline; config is None when there is no file.  The pattern *)
(* ^PRESET=.*$ under re.MULTILINE matches whole lines, one by one.         *)
(***************************************************************************)

\* the keys of the dictionary of lines 1157-1204, in its order
PresetNames ==
    <<<<"w", "o", "r", "k", "i", "n", "g">>,
      <<"g", "a", "m", "i", "n", "g">>,
      <<"s", "e", "r", "v", "e", "r">>,
      <<"c", "o", "n", "s", "e", "r", "v", "a", "t", "i", "v", "e">>,
      <<"c", "u", "s", "t", "o", "m">>>>

PresetKey == <<"P", "R", "E", "S", "E", "T", "=">>

Quote == "\""

\* s.startswith(prefix)
StartsWith(s, prefix) ==
    Len(s) >= Len(prefix) /\ SubSeq(s, 1, Len(prefix)) = prefix

\* s.split('=')[1] for s with a '=' in it
SecondField(s) ==
    LET eqs == {i \in 1..Len(s) : s[i] = "="}
        first == CHOOSE i \in eqs : \A j \in eqs : i <= j
        later == {i \in eqs : i > first}
        stop == IF later = {} THEN Len(s) + 1
                ELSE CHOOSE i \in later : \A j \in later : i <= j
    IN  SubSeq(s, first + 1, stop - 1)

\* s.strip('"')
StripQuotes(s) ==
    LET keep == {i \in 1..Len(s) : s[i] # Quote}
    IN  IF keep = {} THEN <<>>
        ELSE LET lo == CHOOSE i \in keep : \A j \in keep : i <= j
                 hi == CHOOSE i \in keep : \A j \in keep : j <= i
             IN  SubSeq(s, lo, hi)

\* lines 1080-1087: the first line that starts with PRESET= once stripped
\* gives the preset; "unknown" when there is none, no file, or a failing read
GetCurrentPreset(file, readable) ==
    IF file = None \/ ~readable THEN Chars("unknown")
    ELSE LET lines == file[1]
             hits == {i \in 1..Len(lines) : StartsWith(Strip(lines[i]), PresetKey)}
         IN  IF hits = {} THEN Chars("unknown")
             ELSE LET i == CHOOSE h \in hits : \A k \in hits : h <= k
                  IN  StripQuotes(Strip(SecondField(lines[i])))

\* line 1098: PRESET="<preset_name>"
PresetLine(name) == PresetKey \o <<Quote>> \o name \o <<Quote>>

\* line 1098: re.sub(r'^PRESET=.*$', ..., content, flags=re.MULTILINE)
ReSub(lines, name) ==
    [i \in 1..Len(lines) |->
        IF StartsWith(lines[i], PresetKey) THEN PresetLine(name) ELSE lines[i]]

\* lines a config.sh can hold: the line set_preset writes, the same without
\* quotes, the same indented, and another assignment
ConfigLines ==
    {<<"X", "=", "1">>}
      \cup {PresetLine(PresetNames[n]) : n \in 1..2}
      \cup {PresetKey \o PresetNames[n] : n \in 1..2}
      \cup {<<" ">> \o PresetLine(PresetNames[n]) : n \in 1..2}

ConfigFiles == UNION {[1..k -> ConfigLines] : k \in 0..MaxLines}

\* scripts/config.sh as the program finds it
InstallConfig ==
    /\ config = None
    /\ set_result = "none"
    /\ \E f \in ConfigFiles : config' = Some(f)
    /\ UNCHANGED <<config_before, preset_name, set_result, get_result,
                   dashboardVars, optimizeVars, restoreVars>>

\* how the file operations of set_preset can go
SetOutcomes == {"ok", "read_fails", "open_fails", "write_fails"}

\* lines 1089-1106: set_preset(name).  A write that raises comes after the
\* open of line 1100 has emptied the file.
SetPreset ==
    /\ \E n \in 1..Len(PresetNames), io \in SetOutcomes :
          /\ preset_name' = PresetNames[n]
          /\ IF config = None
             THEN /\ config' = config
                  /\ set_result' = "false"
             ELSE CASE io = "ok" ->
                         /\ config' = Some(ReSub(config[1], PresetNames[n]))
                         /\ set_result' = "true"
                    [] io = "write_fails" ->
                         /\ config' = Some(<<>>)
                         /\ set_result' = "false"
                    [] OTHER ->
                         /\ config' = config
                         /\ set_result' = "false"
    /\ config_before' = config
    /\ get_result' = None
    /\ UNCHANGED <<dashboardVars, optimizeVars, restoreVars>>

\* lines 1075-1087: get_current_preset() after a set_preset call
GetPreset ==
    /\ set_result # "none"
    /\ get_result = None
    /\ \E readable \in BOOLEAN : get_result' = Some(GetCurrentPreset(config, readable))
    /\ UNCHANGED <<config, config_before, preset_name, set_result, dashboardVars,
                   optimizeVars, restoreVars>>

NextPresets == InstallConfig \/ SetPreset \/ GetPreset

SpecPresets == InitPoll /\ [][NextPresets]_vars

----------------------------------------------------------------------------
(* Claims about the preset, checked under SpecPresets *)

\* C27: whenever set_preset(p) returns True for a name p of the menu's list,
\* a following get_current_preset() returns p; and when set_preset returns
\* False the content of the config file is unchanged.
C27_PresetRoundTrip ==
    /\ (set_result = "true" /\ get_result # None) => get_result = Some(preset_name)
    /\ set_result = "false" => config = config_before

====
